---- MODULE Spec2Model ----
(***************************************************************************)
(* A model of src/dtv/rd_client.py, the Real-Debrid client of dtv.         *)
(*                                                                         *)
(* Text (magnet links, hashes, tokens, prompt input) is modelled as a      *)
(* sequence of one-character strings so that the string operations of the  *)
(* code (split, strip, upper, re.match) are computed, not assumed.         *)
(* One behaviour is one call of one function of the module: the caller     *)
(* picks the function and its arguments, the remote service picks each     *)
(* response and the operator picks the line typed at the prompt.           *)
(***************************************************************************)
EXTENDS Integers, Sequences, FiniteSets, TLC

VARIABLES
    fn,       \* the function called ("idle" before the call)
    pc,       \* the position inside that function
    arg,      \* the arguments of the call
    store,    \* the persisted token (config.load_token / config.save_token)
    token,    \* the local variable token of get_valid_token
    log,      \* what the call has done so far: requests, prompts, saves, sleeps
    fetched,  \* the records get_torrent_info has returned to the polling loop
    result    \* how the call ended: a returned value or a raised exception

vars == <<fn, pc, arg, store, token, log, fetched, result>>

(***************************************************************************)
(* Bounds of the model and constants of the program.                       *)
(***************************************************************************)
\* The longest polling run explored (the code's loop itself has no bound).
MaxPolls == 3
\* The longest account torrent list explored.
MaxTorrents == 2
\* The {40} of the pattern urn:btih:([0-9a-fA-F]{40}).
HashLen == 40

(***************************************************************************)
(* Text helpers.                                                           *)
(***************************************************************************)
LowerLetters ==
    <<"a","b","c","d","e","f","g","h","i","j","k","l","m",
      "n","o","p","q","r","s","t","u","v","w","x","y","z">>
UpperLetters ==
    <<"A","B","C","D","E","F","G","H","I","J","K","L","M",
      "N","O","P","Q","R","S","T","U","V","W","X","Y","Z">>

\* str.upper() on one character.
UpperChar(c) ==
    IF \E i \in 1..26 : LowerLetters[i] = c
    THEN UpperLetters[CHOOSE i \in 1..26 : LowerLetters[i] = c]
    ELSE c

\* str.upper().
Upper(s) == [i \in 1..Len(s) |-> UpperChar(s[i])]

\* The character class [0-9a-fA-F].
HexChars ==
    {"0","1","2","3","4","5","6","7","8","9",
     "a","b","c","d","e","f","A","B","C","D","E","F"}

\* n copies of the character c.
Rep(c, n) == [i \in 1..n |-> c]

\* The position of the first c in s, 0 when there is none.
IndexOf(s, c) ==
    IF \E i \in 1..Len(s) : s[i] = c
    THEN CHOOSE i \in 1..Len(s) : s[i] = c /\ \A j \in 1..(i-1) : s[j] # c
    ELSE 0

\* str.split(c): the pieces of s between the occurrences of c.
RECURSIVE Split(_, _)
Split(s, c) ==
    LET i == IndexOf(s, c) IN
    IF i = 0 THEN <<s>>
    ELSE <<SubSeq(s, 1, i - 1)>> \o Split(SubSeq(s, i + 1, Len(s)), c)

\* str.strip(): leading and trailing blanks removed.
RECURSIVE Strip(_)
Strip(s) ==
    IF s = <<>> THEN s
    ELSE IF s[1] = " " THEN Strip(Tail(s))
    ELSE IF s[Len(s)] = " " THEN Strip(SubSeq(s, 1, Len(s) - 1))
    ELSE s

(***************************************************************************)
(* How a call ends.                                                        *)
(***************************************************************************)
NoResult == [kind |-> "none", val |-> <<>>, exc |-> "", msg |-> "", cause |-> ""]
Return(v) == [kind |-> "return", val |-> v, exc |-> "", msg |-> "", cause |-> ""]
\* raise exc(msg + cause): cause is the text formatted into the message.
Raise(e, m, c) == [kind |-> "raise", val |-> <<>>, exc |-> e, msg |-> m, cause |-> c]

(***************************************************************************)
(* extract_magnet_hash: urlparse, parse_qs, re.match, upper.               *)
(***************************************************************************)
\* urlparse(magnet).query: the text after the first "?" of what precedes
\* the first "#".
UrlQuery(url) ==
    LET h == IndexOf(url, "#")
        u == IF h = 0 THEN url ELSE SubSeq(url, 1, h - 1)
        q == IndexOf(u, "?")
    IN  IF q = 0 THEN <<>> ELSE SubSeq(u, q + 1, Len(u))

\* parse_qs(query).get(key, [''])[0]: the value of the first "key=value"
\* piece, split at "&", whose value is not blank; '' when there is none.
\* (The inputs explored hold no "%" and no "+", which parse_qs would decode.)
RECURSIVE FirstValue(_, _)
FirstValue(pieces, key) ==
    IF pieces = <<>> THEN <<>>
    ELSE LET p == Head(pieces)
             e == IndexOf(p, "=")
         IN  IF e # 0 /\ SubSeq(p, 1, e - 1) = key /\ e < Len(p)
             THEN SubSeq(p, e + 1, Len(p))
             ELSE FirstValue(Tail(pieces), key)

ParseQsGet(query, key) == FirstValue(Split(query, "&"), key)

UrnBtih == <<"u","r","n",":","b","t","i","h",":">>

\* re.match(r'urn:btih:([0-9a-fA-F]{40})', xt): anchored at the start only.
ReMatch(xt) ==
    /\ Len(xt) >= Len(UrnBtih) + HashLen
    /\ SubSeq(xt, 1, Len(UrnBtih)) = UrnBtih
    /\ \A i \in (Len(UrnBtih) + 1)..(Len(UrnBtih) + HashLen) : xt[i] \in HexChars

\* match.group(1)
ReGroup1(xt) == SubSeq(xt, Len(UrnBtih) + 1, Len(UrnBtih) + HashLen)

extract_magnet_hash(magnet) ==
    LET xt == ParseQsGet(UrlQuery(magnet), <<"x","t">>) IN
    IF ReMatch(xt)
    THEN Return(Upper(ReGroup1(xt)))
    ELSE Raise("ValueError", "Invalid magnet link: no valid hash found", "")

(***************************************************************************)
(* The HTTP transport: requests.get / requests.post and raise_for_status.  *)
(***************************************************************************)
\* A request ends with a 2xx response, with a 4xx/5xx response, or with no
\* response at all (requests raises ConnectionError itself).
HttpOutcomes == {"ok", "http_error", "conn_error"}

\* What requests.get/post followed by response.raise_for_status() raises.
HttpFailure(o) ==
    IF o = "http_error"
    THEN Raise("HTTPError", "", "")
    ELSE Raise("ConnectionError", "", "")

\* The exception's class name, as the cause formatted into a message.
ExcName(o) == IF o = "http_error" THEN "HTTPError" ELSE "ConnectionError"

\* The entries of the log. A request records the bearer token it carried and
\* how it ended; a prompt records the line typed; a save the token written.
Request(method, path, tok, o) ==
    [ev |-> "request", method |-> method, path |-> path, tok |-> tok, out |-> o]
Event(e, t) == [ev |-> e, method |-> "", path |-> "", tok |-> t, out |-> ""]

Requests == {i \in 1..Len(log) : log[i].ev = "request"}
Count(e) == Cardinality({i \in 1..Len(log) : log[i].ev = e})

(***************************************************************************)
(* The inputs explored.                                                    *)
(***************************************************************************)
\* Optional values: Python's None and a present value.
None == [present |-> FALSE, val |-> <<>>]
Some(v) == [present |-> TRUE, val |-> v]
\* Python truthiness of an optional string: None and '' are false.
Truthy(o) == o.present /\ o.val # <<>>

TokA == <<"t","k","A">>
TokB == <<"t","k","B">>

MagnetPrefix == <<"m","a","g","n","e","t",":","?">>
XtEq == <<"x","t","=">>
DnParam == <<"d","n","=","t">>
UrnBtmh == <<"u","r","n",":","b","t","m","h",":">>
UrnUpper == <<"U","R","N",":","B","T","I","H",":">>

\* Pieces joined with "&".
RECURSIVE Join(_)
Join(ps) ==
    IF ps = <<>> THEN <<>>
    ELSE IF Len(ps) = 1 THEN ps[1]
    ELSE ps[1] \o <<"&">> \o Join(Tail(ps))

Magnet(params) == MagnetPrefix \o Join(params)

\* The text after "urn:...:": two leading characters (lower-case hex,
\* upper-case hex, a digit, a non-hex letter), zeros, and a last character,
\* 39 to 41 characters in all.
LeadChars == {"a", "B", "7", "g"}
Leads == {<<x, y>> : x \in LeadChars, y \in LeadChars}
Lasts == {<<>>, <<"e">>, <<"z">>}
XtBodies ==
    {l \o Rep("0", n) \o t : l \in Leads, n \in {HashLen - 3, HashLen - 2}, t \in Lasts}
XtValues == {p \o b : p \in {UrnBtih, UrnBtmh, UrnUpper}, b \in XtBodies}

\* A second xt parameter beside the one explored (a BitTorrent v2 hash).
OtherXt == XtEq \o UrnBtmh \o <<"1","2","2","0">>

\* The query strings built around an xt value v.
Queries(v) ==
    { <<XtEq \o v>>,
      <<XtEq \o v, DnParam>>,
      <<DnParam, XtEq \o v>>,
      <<DnParam>>,
      <<XtEq, DnParam>>,
      <<XtEq, XtEq \o v>>,
      <<OtherXt, XtEq \o v>>,
      <<XtEq \o v, OtherXt>> }

Magnets == {Magnet(q) : q \in UNION {Queries(v) : v \in XtValues}}

\* The hashes of the account's torrents and of the targets looked up.
CaseLeads == {<<"a","b">>, <<"A","B">>, <<"a","B">>, <<"c","d">>, <<"C","D">>}
Hashes == {l \o Rep("0", HashLen - 2) : l \in CaseLeads}
HashMagnets == {Magnet(<<XtEq \o UrnBtih \o h, DnParam>>) : h \in Hashes}

IdNames == <<"t1", "t2", "t3", "t4">>
\* response.json() of GET torrents: entry i has id IdNames[i].
TorrentLists ==
    UNION {{[i \in 1..n |-> [id |-> IdNames[i], hash |-> hs[i]]] : hs \in [1..n -> Hashes]}
           : n \in 0..MaxTorrents}

NotFound == "None"

(***************************************************************************)
(* The initial state: nothing called yet; the token store holds no token,  *)
(* an empty one, or a token.                                               *)
(***************************************************************************)
StoredTokens == {None, Some(<<>>), Some(TokA), Some(TokB)}

Init ==
    /\ fn = "idle"
    /\ pc = "idle"
    /\ arg = <<>>
    /\ store \in StoredTokens
    /\ token = None
    /\ log = <<>>
    /\ fetched = <<>>
    /\ result = NoResult

(***************************************************************************)
(* extract_magnet_hash as a call.                                          *)
(***************************************************************************)
ExtractMagnetHash ==
    /\ pc = "idle"
    /\ \E m \in Magnets :
        /\ arg' = [magnet |-> m]
        /\ result' = extract_magnet_hash(m)
    /\ fn' = "extract_magnet_hash"
    /\ pc' = "done"
    /\ UNCHANGED <<store, token, log, fetched>>

(***************************************************************************)
(* check_existing_torrent.                                                 *)
(***************************************************************************)
\* The loop over torrents: the id of the first entry whose upper-cased hash
\* equals input_hash, None when there is none.
FirstMatch(torrents, input_hash) ==
    LET hits == {i \in 1..Len(torrents) : Upper(torrents[i].hash) = input_hash} IN
    IF hits = {} THEN NotFound
    ELSE torrents[CHOOSE i \in hits : \A j \in hits : i <= j].id

\* input_hash = input_val if is_hash else extract_magnet_hash(input_val)
InputHash(input_val, is_hash) ==
    IF is_hash THEN Return(input_val) ELSE extract_magnet_hash(input_val)

check_existing_torrent(torrents, input_val, is_hash) ==
    LET h == InputHash(input_val, is_hash) IN
    IF h.kind = "raise" THEN h ELSE Return(FirstMatch(torrents, h.val))

CheckExistingTorrent ==
    /\ pc = "idle"
    /\ \E o \in HttpOutcomes, ts \in TorrentLists, is_hash \in BOOLEAN, is_magnet \in BOOLEAN :
        \E v \in (IF is_hash THEN Hashes ELSE HashMagnets) :
            /\ is_hash # is_magnet
            /\ arg' = [token |-> TokA, input_val |-> v, is_magnet |-> is_magnet,
                       is_hash |-> is_hash, http |-> o, torrents |-> ts]
            /\ log' = <<Request("GET", "torrents", TokA, o)>>
            /\ result' = IF o = "ok" THEN check_existing_torrent(ts, v, is_hash)
                         ELSE HttpFailure(o)
    /\ fn' = "check_existing_torrent"
    /\ pc' = "done"
    /\ UNCHANGED <<store, token, fetched>>

(***************************************************************************)
(* get_valid_token.                                                        *)
(***************************************************************************)
\* The lines the operator may type at the prompt.
PromptLines ==
    {<<>>, <<" ">>, <<" ", " ">>, TokA, TokB, <<" ">> \o TokB \o <<" ">>}

\* raise ValueError("API token is required.")
ErrTokenRequired == Raise("ValueError", "API token is required.", "")
\* raise ValueError(f"Invalid token or API error: {e}")
ErrInvalidToken(o) == Raise("ValueError", "Invalid token or API error: ", ExcName(o))

\* token = load_token(); if token:
GetValidToken ==
    /\ pc = "idle"
    /\ fn' = "get_valid_token"
    /\ arg' = <<>>
    /\ token' = store
    /\ pc' = IF Truthy(store) THEN "verify_existing" ELSE "prompt"
    /\ UNCHANGED <<store, log, fetched, result>>

\* A faulty variant of GvtVerifyExisting: it writes the stored token back to
\* the store once it has validated.
GvtVerifyExisting_Saves ==
    /\ pc = "verify_existing"
    /\ \E o \in HttpOutcomes :
        IF o = "ok"
        THEN /\ log' = log \o <<Request("GET", "user", token.val, o),
                                Event("save", token.val)>>
             /\ result' = Return(token.val)
             /\ pc' = "done"
        ELSE /\ log' = log \o <<Request("GET", "user", token.val, o),
                                Event("print", <<>>)>>
             /\ result' = result
             /\ pc' = "prompt"
    /\ UNCHANGED <<fn, arg, store, token, fetched>>

\* A faulty variant of GvtVerifyExisting: the return is missing, so that a
\* valid stored token falls through to the prompt as well.
GvtVerifyExisting_FallsThrough ==
    /\ pc = "verify_existing"
    /\ \E o \in HttpOutcomes :
        /\ log' = Append(log, Request("GET", "user", token.val, o))
        /\ result' = result
        /\ pc' = "prompt"
    /\ UNCHANGED <<fn, arg, store, token, fetched>>

\* The try block on the stored token: return it, or print and fall through.
GvtVerifyExisting ==
    /\ pc = "verify_existing"
    /\ \E o \in HttpOutcomes :
        IF o = "ok"
        THEN /\ log' = Append(log, Request("GET", "user", token.val, o))
             /\ result' = Return(token.val)
             /\ pc' = "done"
        ELSE /\ log' = log \o <<Request("GET", "user", token.val, o),
                                Event("print", <<>>)>>
             /\ result' = result
             /\ pc' = "prompt"
    /\ UNCHANGED <<fn, arg, store, token, fetched>>

\* token = input(...).strip(); if not token: raise ValueError
GvtPrompt ==
    /\ pc = "prompt"
    /\ \E line \in PromptLines :
        /\ log' = Append(log, Event("prompt", line))
        /\ token' = Some(Strip(line))
        /\ IF Strip(line) = <<>>
           THEN /\ result' = ErrTokenRequired
                /\ pc' = "done"
           ELSE /\ result' = result
                /\ pc' = "verify_new"
    /\ UNCHANGED <<fn, arg, store, fetched>>

\* A faulty variant of GvtVerifyNew: a rejected token leads back to the
\* prompt instead of raising.
GvtVerifyNew_Reprompt ==
    /\ pc = "verify_new"
    /\ \E o \in HttpOutcomes :
        IF o = "ok"
        THEN /\ log' = log \o <<Request("GET", "user", token.val, o),
                                Event("save", token.val), Event("print", <<>>)>>
             /\ store' = token
             /\ result' = Return(token.val)
             /\ pc' = "done"
        ELSE /\ log' = Append(log, Request("GET", "user", token.val, o))
             /\ store' = store
             /\ result' = result
             /\ pc' = IF Count("prompt") < 2 THEN "prompt" ELSE "done"
    /\ UNCHANGED <<fn, arg, token, fetched>>

\* The try block on the new token: save and return it, or raise ValueError.
GvtVerifyNew ==
    /\ pc = "verify_new"
    /\ \E o \in HttpOutcomes :
        IF o = "ok"
        THEN /\ log' = log \o <<Request("GET", "user", token.val, o),
                                Event("save", token.val), Event("print", <<>>)>>
             /\ store' = token
             /\ result' = Return(token.val)
        ELSE /\ log' = Append(log, Request("GET", "user", token.val, o))
             /\ store' = store
             /\ result' = ErrInvalidToken(o)
    /\ pc' = "done"
    /\ UNCHANGED <<fn, arg, token, fetched>>

(***************************************************************************)
(* The single-request operations.                                          *)
(***************************************************************************)
Links == {<<"l","1">>, <<"l","2">>}

add_magnet(o, json) == IF o = "ok" THEN Return(json.id) ELSE HttpFailure(o)

AddMagnet ==
    /\ pc = "idle"
    /\ \E o \in HttpOutcomes, m \in HashMagnets, id \in {IdNames[1], IdNames[2]} :
        /\ arg' = [token |-> TokA, magnet |-> m, http |-> o]
        /\ log' = <<Request("POST", "torrents/addMagnet", TokA, o)>>
        /\ result' = add_magnet(o, [id |-> id])
    /\ fn' = "add_magnet"
    /\ pc' = "done"
    /\ UNCHANGED <<store, token, fetched>>

\* The statuses a torrent record may carry.
FailureStatuses == {"error", "magnet_error", "virus", "dead"}
OtherStatuses == {"downloading", "waiting_files_selection", "unknown_status"}
Statuses == {"downloaded"} \cup FailureStatuses \cup OtherStatuses
Progress == {10, 90}
\* response.json() of GET torrents/info/{id}
Infos == [id : {IdNames[1]}, status : Statuses, progress : Progress]

\* A faulty variant of get_torrent_info: raise_for_status() is missing, so a
\* failed request yields the body as if it had succeeded.
get_torrent_info_NoRaise(o, json) == Return(json)

get_torrent_info(o, json) == IF o = "ok" THEN Return(json) ELSE HttpFailure(o)

GetTorrentInfo ==
    /\ pc = "idle"
    /\ \E o \in HttpOutcomes, json \in Infos :
        /\ arg' = [token |-> TokA, torrent_id |-> json.id, http |-> o]
        /\ log' = <<Request("GET", "torrents/info", TokA, o)>>
        /\ result' = get_torrent_info(o, json)
    /\ fn' = "get_torrent_info"
    /\ pc' = "done"
    /\ UNCHANGED <<store, token, fetched>>

\* select_files returns nothing (None).
select_files(o) == IF o = "ok" THEN Return(NotFound) ELSE HttpFailure(o)

SelectFiles ==
    /\ pc = "idle"
    /\ \E o \in HttpOutcomes, id \in {IdNames[1], IdNames[2]}, files \in {"all", "1,2"} :
        /\ arg' = [token |-> TokA, torrent_id |-> id, files |-> files, http |-> o]
        /\ log' = <<Request("POST", "torrents/selectFiles", TokA, o)>>
        /\ result' = select_files(o)
    /\ fn' = "select_files"
    /\ pc' = "done"
    /\ UNCHANGED <<store, token, fetched>>

unrestrict_link(o, json) == IF o = "ok" THEN Return(json.download) ELSE HttpFailure(o)

UnrestrictLink ==
    /\ pc = "idle"
    /\ \E o \in HttpOutcomes, link \in Links, url \in Links :
        /\ arg' = [token |-> TokA, link |-> link, http |-> o]
        /\ log' = <<Request("POST", "unrestrict/link", TokA, o)>>
        /\ result' = unrestrict_link(o, [download |-> url])
    /\ fn' = "unrestrict_link"
    /\ pc' = "done"
    /\ UNCHANGED <<store, token, fetched>>

\* player_link = response.json().get('streamable'); if not player_link: raise
get_rdplayer_link(o, json) ==
    IF o # "ok" THEN HttpFailure(o)
    ELSE IF ~Truthy(json.streamable)
         THEN Raise("ValueError", "No streamable link found for RDPlayer.", "")
         ELSE Return(json.streamable.val)

GetRdplayerLink ==
    /\ pc = "idle"
    /\ \E o \in HttpOutcomes, link \in Links,
          st \in {None, Some(<<>>)} \cup {Some(l) : l \in Links} :
        /\ arg' = [token |-> TokA, link |-> link, http |-> o, streamable |-> st]
        /\ log' = <<Request("POST", "streaming/mediaInfos", TokA, o)>>
        /\ result' = get_rdplayer_link(o, [streamable |-> st])
    /\ fn' = "get_rdplayer_link"
    /\ pc' = "done"
    /\ UNCHANGED <<store, token, fetched>>

(***************************************************************************)
(* wait_for_torrent_ready.                                                 *)
(***************************************************************************)
\* Faulty variants of WaitBranch: one that does not know "downloaded", one
\* whose list of failure statuses lacks "dead", and one that gives up on the
\* second poll of a torrent still in progress.
WaitBranch_NoDownloaded(status) ==
    IF status \in FailureStatuses THEN "raise" ELSE "sleep"

WaitBranch_NoDead(status) ==
    IF status = "downloaded" THEN "return"
    ELSE IF status \in FailureStatuses \ {"dead"} THEN "raise"
    ELSE "sleep"

WaitBranch_GivesUp(status) ==
    IF status = "downloaded" THEN "return"
    ELSE IF status \in FailureStatuses \/ Count("request") >= 1 THEN "raise"
    ELSE "sleep"

\* The if / elif of the loop body: what the loop does on a status.
WaitBranch(status) ==
    IF status = "downloaded" THEN "return"
    ELSE IF status \in FailureStatuses THEN "raise"
    ELSE "sleep"

WaitForTorrentReady ==
    /\ pc = "idle"
    /\ fn' = "wait_for_torrent_ready"
    /\ arg' = [token |-> TokA, torrent_id |-> IdNames[1]]
    /\ pc' = "wait_fetch"
    /\ UNCHANGED <<store, token, log, fetched, result>>

\* One turn of the loop up to the sleep: get_torrent_info, then the branch.
\* (MaxPolls bounds the exploration only.)
WaitPoll ==
    /\ pc = "wait_fetch"
    /\ Count("request") < MaxPolls
    /\ \E o \in HttpOutcomes, json \in Infos :
        LET info == get_torrent_info(o, json) IN
        /\ log' = Append(log, Request("GET", "torrents/info", arg.token, o))
        /\ IF info.kind = "raise"
           THEN /\ fetched' = fetched
                /\ result' = info
                /\ pc' = "done"
           ELSE /\ fetched' = Append(fetched, info.val)
                /\ result' = CASE WaitBranch(info.val.status) = "return" -> Return(info.val)
                               [] WaitBranch(info.val.status) = "raise" ->
                                    Raise("ValueError", "Torrent failed with status: ",
                                          info.val.status)
                               [] OTHER -> result
                /\ pc' = IF WaitBranch(info.val.status) = "sleep"
                         THEN "wait_sleep" ELSE "done"
    /\ UNCHANGED <<fn, arg, store, token>>

\* time.sleep(POLL_INTERVAL)
WaitSleep ==
    /\ pc = "wait_sleep"
    /\ log' = Append(log, Event("sleep", <<>>))
    /\ pc' = "wait_fetch"
    /\ UNCHANGED <<fn, arg, store, token, fetched, result>>

Next ==
    \/ GetValidToken
    \/ GvtVerifyExisting
    \/ GvtPrompt
    \/ GvtVerifyNew
    \/ ExtractMagnetHash
    \/ CheckExistingTorrent
    \/ AddMagnet
    \/ GetTorrentInfo
    \/ SelectFiles
    \/ UnrestrictLink
    \/ GetRdplayerLink
    \/ WaitForTorrentReady
    \/ WaitPoll
    \/ WaitSleep

Spec == Init /\ [][Next]_vars

(***************************************************************************)
(* Properties.                                                             *)
(*                                                                         *)
(* The code raises ValueError where the specification speaks of            *)
(* ConfigurationError, AuthenticationError, ValidationError and            *)
(* TorrentFailedError, and requests' HTTPError where it speaks of          *)
(* RemoteServiceError; the properties name the exceptions of the code.     *)
(***************************************************************************)
TerminalFailures == {"error", "magnet_error", "virus", "dead"}
Terminal == {"downloaded"} \cup TerminalFailures

\* The index of the smallest element of a non-empty set of numbers.
Least(S) == CHOOSE i \in S : \A j \in S : i <= j

(* C1: check_existing_torrent compares hashes ignoring case for every kind *)
(* of target (a magnet, or a hash passed directly, in any letter case): it *)
(* returns the id of the first entry of the account's list whose hash      *)
(* equals the target ignoring case, and None when no entry matches.        *)
C1_TargetHash ==
    CHOOSE h \in Hashes :
        \/ arg.input_val = h
        \/ arg.input_val = Magnet(<<XtEq \o UrnBtih \o h, DnParam>>)

C1_Expected ==
    LET hits == {i \in 1..Len(arg.torrents) :
                    Upper(arg.torrents[i].hash) = Upper(C1_TargetHash)}
    IN  IF hits = {} THEN "None" ELSE arg.torrents[Least(hits)].id

\* C1: the call returns the id of the first entry equal to the target
\* ignoring case, None when there is none.
C1_CaseInsensitiveLookup ==
    (fn = "check_existing_torrent" /\ pc = "done" /\ arg.http = "ok")
        => (result.kind = "return" /\ result.val = C1_Expected)

(* C2: when the first terminal status the polling loop observes is         *)
(* "downloaded", at fetch k, the call has returned exactly the record of   *)
(* fetch k after k fetches and k - 1 sleeps, and nothing follows.          *)
C2_ReturnsOnDownloaded ==
    fn = "wait_for_torrent_ready" =>
        \A k \in 1..Len(fetched) :
            ( /\ fetched[k].status = "downloaded"
              /\ \A j \in 1..(k - 1) : fetched[j].status \notin Terminal )
            => /\ pc = "done"
               /\ result.kind = "return"
               /\ result.val = fetched[k]
               /\ Len(fetched) = k
               /\ Count("request") = k
               /\ Count("sleep") = k - 1
               /\ log[Len(log)].ev = "request"

C2_Witness ==
    /\ fn = "wait_for_torrent_ready"
    /\ pc = "done"
    /\ Len(fetched) = 3
    /\ fetched[1].status = "downloading"
    /\ fetched[3].status = "downloaded"
    /\ result.kind = "return"

(* C3: when the first terminal status the polling loop observes is one of  *)
(* error, magnet_error, virus, dead, at fetch k, the call has raised the   *)
(* error naming exactly that status after k fetches, returns no record,    *)
(* and nothing follows.                                                    *)
C3_RaisesOnFailureStatus ==
    fn = "wait_for_torrent_ready" =>
        \A k \in 1..Len(fetched) :
            ( /\ fetched[k].status \in TerminalFailures
              /\ \A j \in 1..(k - 1) : fetched[j].status \notin Terminal )
            => /\ pc = "done"
               /\ result.kind = "raise"
               /\ result.exc = "ValueError"
               /\ result.msg = "Torrent failed with status: "
               /\ result.cause = fetched[k].status
               /\ Len(fetched) = k
               /\ Count("request") = k
               /\ Count("sleep") = k - 1
               /\ log[Len(log)].ev = "request"

C3_Witness ==
    /\ fn = "wait_for_torrent_ready"
    /\ pc = "done"
    /\ Len(fetched) = 2
    /\ fetched[2].status = "dead"
    /\ result.kind = "raise"
    /\ result.cause = "dead"

(* C4: in a run of get_valid_token the token store is written at most      *)
(* once, and only with the token typed at the prompt in this call, right   *)
(* after the validation request for that token has succeeded.              *)
C4_Write ==
    (store' # store \/ Count("save")' # Count("save")) =>
        /\ fn = "get_valid_token"
        /\ Count("save") = 0
        /\ Count("save")' = 1
        /\ Len(log) >= 1
        /\ log[Len(log)].ev = "prompt"
        /\ Strip(log[Len(log)].tok) # <<>>
        /\ Len(log') >= Len(log) + 2
        /\ log'[Len(log) + 1].ev = "request"
        /\ log'[Len(log) + 1].out = "ok"
        /\ log'[Len(log) + 1].tok = Strip(log[Len(log)].tok)
        /\ log'[Len(log) + 2].ev = "save"
        /\ log'[Len(log) + 2].tok = Strip(log[Len(log)].tok)
        /\ store'.present
        /\ store'.val = Strip(log[Len(log)].tok)

\* C4: every step that writes the store is such a write.
C4_StoreWrittenOnce == [][C4_Write]_vars

C4_Witness ==
    /\ fn = "get_valid_token"
    /\ pc = "done"
    /\ Count("save") = 1
    /\ Count("request") = 2
    /\ result.kind = "return"

(* C5 as stated: get_valid_token prompts at most once; a prompted token    *)
(* that fails validation makes the call fail at once with an error of a    *)
(* class distinct from that raised for blank input, carrying the cause,    *)
(* with no further prompt or request; blank input fails before any         *)
(* validation request for it.                                              *)
C5_Common(distinct) ==
    fn = "get_valid_token" =>
        /\ Count("prompt") <= 1
        /\ \A i \in 1..Len(log) :
            (log[i].ev = "prompt" /\ Strip(log[i].tok) = <<>>)
            => /\ pc = "done"
               /\ i = Len(log)
               /\ result.kind = "raise"
               /\ result.exc = "ValueError"
               /\ result.msg = "API token is required."
        /\ \A i \in 1..Len(log) :
            ( /\ log[i].ev = "request"
              /\ log[i].out # "ok"
              /\ \E j \in 1..(i - 1) : log[j].ev = "prompt" )
            => /\ pc = "done"
               /\ i = Len(log)
               /\ result.kind = "raise"
               /\ result.msg = "Invalid token or API error: "
               /\ result.cause =
                    (IF log[i].out = "http_error" THEN "HTTPError" ELSE "ConnectionError")
               /\ result.msg # ErrTokenRequired.msg
               /\ (result.exc # ErrTokenRequired.exc) = distinct

C6_IsBtihParam(p) ==
    /\ Len(p) = Len(XtEq) + Len(UrnBtih) + 40
    /\ SubSeq(p, 1, Len(XtEq) + Len(UrnBtih)) = XtEq \o UrnBtih
    /\ \A i \in (Len(XtEq) + Len(UrnBtih) + 1)..Len(p) : p[i] \in HexChars

\* C6: the hash of any xt=urn:btih:<40 hex> parameter of the query is
\* returned in upper case.
C6_UppercaseOfBtihParam ==
    (fn = "extract_magnet_hash" /\ pc = "done") =>
        LET pieces == Split(UrlQuery(arg.magnet), "&") IN
        \A i \in 1..Len(pieces) :
            C6_IsBtihParam(pieces[i])
            => /\ result.kind = "return"
               /\ result.val =
                    Upper(SubSeq(pieces[i], Len(XtEq) + Len(UrnBtih) + 1, Len(pieces[i])))

(* C7: extract_magnet_hash raises, and returns no hash, for every magnet   *)
(* whose xt parameter is absent or is not exactly urn:btih: followed by    *)
(* 40 hex characters (wrong prefix, too short, a non-hex character, or     *)
(* characters after the 40th).                                             *)
C7_RaisesOnMalformedXt ==
    (fn = "extract_magnet_hash" /\ pc = "done") =>
        LET xt == ParseQsGet(UrlQuery(arg.magnet), <<"x", "t">>) IN
        ~C6_IsBtihParam(XtEq \o xt)
        => (result.kind = "raise" /\ result.exc = "ValueError")

(* C8: the polling loop has no bound: the call has ended exactly when the  *)
(* last fetch failed or reported one of the five terminal statuses; until  *)
(* then it has no result, its fetches and sleeps alternate, and the next   *)
(* sleep or fetch is always possible (MaxPolls bounds the exploration).    *)
C8_PollsUntilTerminal ==
    fn = "wait_for_torrent_ready" =>
        /\ pc \in {"wait_fetch", "wait_sleep", "done"}
        /\ (pc = "done") <=>
             ( /\ Len(log) >= 1
               /\ log[Len(log)].ev = "request"
               /\ \/ log[Len(log)].out # "ok"
                  \/ fetched[Len(fetched)].status \in Terminal )
        /\ (pc # "done") => result.kind = "none"
        /\ \A i \in 1..Len(log) :
             log[i].ev = (IF i % 2 = 1 THEN "request" ELSE "sleep")
        /\ (pc = "wait_sleep") => ENABLED WaitSleep
        /\ (pc = "wait_fetch" /\ Count("request") < MaxPolls) => ENABLED WaitPoll

C8_Witness ==
    /\ fn = "wait_for_torrent_ready"
    /\ pc = "wait_fetch"
    /\ Len(fetched) = 2
    /\ fetched[1].status = "unknown_status"
    /\ fetched[2].status = "downloading"
    /\ Count("sleep") = 2

(* C9: no operation retries a failed request: each single-request          *)
(* operation ends after exactly one request, raising the request's error   *)
(* when it failed; in the polling loop a failed fetch is the last thing    *)
(* the call does and its error is what the call raises.                    *)
C9_SingleRequestOps ==
    {"add_magnet", "get_torrent_info", "select_files", "unrestrict_link",
     "get_rdplayer_link", "check_existing_torrent"}

C9_ErrorOf(o) == IF o = "http_error" THEN "HTTPError" ELSE "ConnectionError"

\* C9: a failed request is the last thing a call does, and its error is
\* what the call raises.
C9_NoRetry ==
    /\ fn \in C9_SingleRequestOps =>
        /\ pc = "done"
        /\ Len(log) = 1
        /\ log[1].ev = "request"
        /\ log[1].out # "ok" =>
            /\ result.kind = "raise"
            /\ result.exc = C9_ErrorOf(log[1].out)
    /\ fn = "wait_for_torrent_ready" =>
        \A i \in 1..Len(log) :
            (log[i].ev = "request" /\ log[i].out # "ok")
            => /\ i = Len(log)
               /\ pc = "done"
               /\ result.kind = "raise"
               /\ result.exc = C9_ErrorOf(log[i].out)
               /\ Len(fetched) = Count("request") - 1

C9_Witness ==
    /\ fn = "wait_for_torrent_ready"
    /\ pc = "done"
    /\ Len(log) = 3
    /\ log[3].out = "http_error"
    /\ result.exc = "HTTPError"

(* C10: when the store holds a token, the first thing get_valid_token does *)
(* is one validation request for it, and when that succeeds the call       *)
(* returns that token with nothing else done; the operator is prompted     *)
(* only when the store held no token (and then no request was made), or    *)
(* after the one request for the stored token failed.                      *)
C10_Step ==
    /\ (pc = "idle" /\ fn' = "get_valid_token") =>
        /\ log' = <<>>
        /\ store' = store
    /\ (fn = "get_valid_token" /\ Len(log) = 0 /\ Len(log') > 0) =>
        IF Truthy(store)
        THEN /\ log'[1].ev = "request"
             /\ log'[1].tok = store.val
             /\ log'[1].out = "ok" =>
                 /\ Len(log') = 1
                 /\ pc' = "done"
                 /\ result'.kind = "return"
                 /\ result'.val = store.val
                 /\ store' = store
        ELSE log'[1].ev = "prompt"
    /\ (fn = "get_valid_token" /\ Count("prompt")' > Count("prompt")) =>
        \/ ~Truthy(store) /\ Count("request") = 0
        \/ /\ Truthy(store)
           /\ Count("request") = 1
           /\ log[1].ev = "request"
           /\ log[1].tok = store.val
           /\ log[1].out # "ok"

\* C10: every step of get_valid_token is such a step.
C10_StoredTokenFirst == [][C10_Step]_vars

C10_Witness ==
    /\ fn = "get_valid_token"
    /\ pc = "done"
    /\ Len(log) = 1
    /\ log[1].ev = "request"
    /\ result.kind = "return"
    /\ store = Some(result.val)

====
